---- MODULE Spec2Model ----
(***************************************************************************)
(* A model of classify.py: the batch driver main(), the classifier call   *)
(* classify_article(), and the checkpoint operations save_progress() and  *)
(* load_existing_progress().                                              *)
(*                                                                         *)
(* Python values are tagged pairs <<tag, payload>> so that a str, a float *)
(* and None stay different values: the csv module turns every cell into   *)
(* text on the way out and returns text on the way in.  Floats are held in *)
(* tenths (5 is 0.5); NaN is its own value.                                *)
(***************************************************************************)
EXTENDS Integers, Sequences, FiniteSets, TLC

\* ------------------------------------------------------------------ bounds
\* Rows the item source yields in one run.
MaxItems == 3
\* Rows of a checkpoint left on disk by an earlier run.
MaxCkpt == 2
\* Rows handed to save_progress in the checkpoint round-trip specification.
MaxRows == 2
\* main()'s save_frequency (20 in the source), scaled so that the periodic
\* save happens within MaxItems rows.
save_frequency == 2
\* Pieces of a response text.
MaxText == 5

\* The sequences over S of length at most n.
SeqsUpTo(S, n) == UNION {[1..m -> S] : m \in 0..n}

\* ------------------------------------------------------------------ values
Str(s) == <<"str", s>>
Flt(n) == <<"float", n>>
NaN == <<"nan", 0>>
None == <<"none", 0>>

IsStr(v) == v[1] = "str"
IsNum(v) == v[1] = "float"

\* Python truthiness of a cell: '' and None are falsy.
Truthy(v) == IF IsStr(v) THEN v[2] # "" ELSE v[1] # "none"

\* Float comparison: every comparison with NaN is false.
FLe(a, b) == IsNum(a) /\ IsNum(b) /\ a[2] <= b[2]
FLt(a, b) == IsNum(a) /\ IsNum(b) /\ a[2] < b[2]

\* Python's max(a, b) and min(a, b): the first argument unless the second
\* compares strictly greater (smaller).
PyMax(a, b) == IF FLt(a, b) THEN b ELSE a
PyMin(a, b) == IF FLt(b, a) THEN b ELSE a

\* repr() of a float held in tenths, as csv.writer writes it.
Digit(d) == CASE d = 0 -> "0" [] d = 1 -> "1" [] d = 2 -> "2" [] d = 3 -> "3"
              [] d = 4 -> "4" [] d = 5 -> "5" [] d = 6 -> "6" [] d = 7 -> "7"
              [] d = 8 -> "8" [] d = 9 -> "9"
FloatRepr(n) ==
    LET a == IF n < 0 THEN -n ELSE n
    IN (IF n < 0 THEN "-" ELSE "") \o Digit((a \div 10) % 10) \o "." \o Digit(a % 10)

\* float(x) of a JSON value: a number converts, a str converts when it
\* spells a number and raises ValueError otherwise, None raises TypeError.
NumericText == {"0.9", "nan"}
FloatOf(v) ==
    CASE IsNum(v) -> [exc |-> "none", val |-> v]
      [] v = NaN -> [exc |-> "none", val |-> NaN]
      [] IsStr(v) /\ v[2] = "0.9" -> [exc |-> "none", val |-> Flt(9)]
      [] IsStr(v) /\ v[2] = "nan" -> [exc |-> "none", val |-> NaN]
      [] IsStr(v) /\ v[2] \notin NumericText -> [exc |-> "ValueError", val |-> None]
      [] OTHER -> [exc |-> "TypeError", val |-> None]

\* ------------------------------------------------------------------- items
\* A row of the input file as csv.DictReader yields it: every cell a str,
\* or None where the line is shorter than the header.  The tags and
\* categories columns only enter the prompt text and are left out.
ItemKeys == {"id", "title", "clean_content"}
Ids == {Str("a"), Str("b"), Str("")}
Item(i, t, c) == [k \in ItemKeys |-> CASE k = "id" -> i [] k = "title" -> t [] OTHER -> c]
\* Title and content: both, content only, neither, and a missing title.
Texts == {<<Str("T"), Str("B")>>, <<Str(""), Str("B")>>, <<Str(""), Str("")>>, <<None, Str("B")>>}
Items == {Item(i, tc[1], tc[2]) : i \in Ids, tc \in Texts}
NoRow == [k \in {"none"} |-> None]

\* ------------------------------------------------------------ the template
\* create_classification_prompt returns an f-string whose JSON example is
\* written with doubled braces: the returned template holds the single-brace
\* text {"neighborhood": ...}, which str.format reads as a replacement field
\* named "neighborhood" (quotes included) and fails on with KeyError.
CreatedTemplate == "create_classification_prompt"
PlainTemplate == "title_and_content_fields_only"
Templates == {CreatedTemplate, PlainTemplate}
create_classification_prompt == CreatedTemplate
FormatRaises(template) == template = CreatedTemplate

\* ------------------------------------------------------ the classifier call
ResultKeys == {"neighborhood", "confidence", "rationale"}
Obj(n, c, r) == [k \in ResultKeys |->
                   CASE k = "neighborhood" -> n [] k = "confidence" -> c [] OTHER -> r]
WithNote(o) == [k \in DOMAIN o \cup {"note"} |-> IF k = "note" THEN Str("x") ELSE o[k]]
Without(o, key) == [k \in DOMAIN o \ {key} |-> o[k]]

\* What client.messages.create and json.loads produce for one call:
\*   raise   the request raises (timeout, authentication, rate limit);
\*   nojson  text that json.loads rejects (JSONDecodeError);
\*   scalar  text that parses to a JSON number;
\*   dict    text that parses to the object obj.
Confidences == {Flt(-5), Flt(5), Flt(15), NaN, Str("0.9"), Str("high"), None}
GoodObjs == {Obj(Str("Mission"), c, Str("why")) : c \in Confidences}
JsonObjs == GoodObjs \cup {WithNote(o) : o \in GoodObjs}
              \cup {Without(Obj(Str("Mission"), Flt(5), Str("why")), "rationale")}
NoObj == [k \in {} |-> None]
Outcome(kind, obj) == [kind |-> kind, obj |-> obj]
ApiOutcomes == {Outcome("raise", NoObj), Outcome("nojson", NoObj), Outcome("scalar", NoObj)}
                 \cup {Outcome("dict", o) : o \in JsonObjs}
NoOutcome == Outcome("none", NoObj)

ApiErrorResult == Obj(Str("unknown"), Flt(0), Str("API error"))
ParseErrorResult == Obj(Str("unknown"), Flt(0), Str("API parsing error"))

\* Lines 150-154: the confidence made a float and brought into range.
Clamp(c) == IF ~(FLe(Flt(0), c) /\ FLe(c, Flt(10))) THEN PyMin(PyMax(c, Flt(0)), Flt(10)) ELSE c

\* Lines 143-165: validation of the parsed response.
Validate(out) ==
    CASE out.kind = "nojson" -> ParseErrorResult
      [] out.kind = "scalar" -> ApiErrorResult     \* `key in 42`: TypeError, outer handler
      [] ~(ResultKeys \subseteq DOMAIN out.obj) -> ParseErrorResult
      [] FloatOf(out.obj["confidence"]).exc = "ValueError" -> ParseErrorResult
      [] FloatOf(out.obj["confidence"]).exc = "TypeError" -> ApiErrorResult
      [] OTHER -> [out.obj EXCEPT !["confidence"] = Clamp(FloatOf(@).val)]

\* Lines 95-173.  The title and content only enter the prompt text.
classify_article(prompt_template, title, content, out) ==
    IF FormatRaises(prompt_template) THEN ApiErrorResult
    ELSE IF out.kind = "raise" THEN ApiErrorResult
    ELSE Validate(out)

\* ------------------------------------------------------ the response text
\* Lines 119-141.  A response text is a sequence of pieces: the fence of
\* three backticks with its json tag ("fence json"), the bare fence, an opening or closing brace, the members of
\* the JSON object ("members"), the same members with a fence inside one of
\* their strings ("fence members"), a JSON number, and words.  Surrounding
\* white space, which strip() removes, is left out.
Pieces == {"fence json", "fence", "{", "}", "members", "fence members", "number", "words"}
NoText == <<"no response">>
ResponseTexts == SeqsUpTo(Pieces, MaxText)
ResponseObj == Obj(Str("Mission"), Flt(15), Str("why"))

\* The pieces at which str.split(sep) cuts: the bare fence also cuts inside
\* "fence json", leaving the tag behind, and inside "fence members", leaving
\* a part of the members on either side; what is left behind is words.
Marks(sep) == IF sep = "fence" THEN {"fence", "fence json", "fence members"} ELSE {sep}
LeftOf(piece) == IF piece = "fence members" THEN <<"words">> ELSE <<>>
RightOf(piece, sep) == IF piece = sep THEN <<>> ELSE <<"words">>
Contains(text, sep) == \E i \in 1..Len(text) : text[i] \in Marks(sep)
FirstMark(text, sep) ==
    IF Contains(text, sep)
    THEN CHOOSE i \in 1..Len(text) :
             text[i] \in Marks(sep) /\ \A j \in 1..(i - 1) : text[j] \notin Marks(sep)
    ELSE 0
\* text.split(sep)[0] and text.split(sep)[1], the latter where sep occurs.
SplitHead(text, sep) ==
    LET i == FirstMark(text, sep)
    IN IF i >= 1 THEN SubSeq(text, 1, i - 1) \o LeftOf(text[i]) ELSE text
SplitSecond(text, sep) ==
    LET i == FirstMark(text, sep)
    IN SplitHead(RightOf(text[i], sep) \o SubSeq(text, i + 1, Len(text)), sep)

\* Lines 123-126: the markdown fence removed.
StripFence(text) ==
    IF Contains(text, "fence json") THEN SplitHead(SplitSecond(text, "fence json"), "fence")
    ELSE IF Contains(text, "fence") THEN SplitHead(SplitSecond(text, "fence"), "fence")
    ELSE text

\* Lines 132-138: from the first opening brace to the last closing brace,
\* the whole text where there is no such span.  Positions count from 1, and
\* 0 is "not found".
Find(text, ch) ==
    IF \E i \in 1..Len(text) : text[i] = ch
    THEN CHOOSE i \in 1..Len(text) : text[i] = ch /\ \A j \in 1..(i - 1) : text[j] # ch
    ELSE 0
RFind(text, ch) ==
    IF \E i \in 1..Len(text) : text[i] = ch
    THEN CHOOSE i \in 1..Len(text) : text[i] = ch /\ \A j \in (i + 1)..Len(text) : text[j] # ch
    ELSE 0
JsonText(text) ==
    LET start == Find(text, "{")
        end == RFind(text, "}")
    IN IF start >= 1 /\ end >= start THEN SubSeq(text, start, end) ELSE text

\* Line 144: json.loads of the extracted text, whose members are obj's.
Loads(text, obj) ==
    CASE text \in {<<"{", "members", "}">>, <<"{", "fence members", "}">>} -> Outcome("dict", obj)
      [] text = <<"{", "}">> -> Outcome("dict", NoObj)
      [] text = <<"number">> -> Outcome("scalar", NoObj)
      [] OTHER -> Outcome("nojson", NoObj)

\* Lines 119-144: what the response text comes to.
Respond(text) == Loads(JsonText(StripFence(text)), ResponseObj)

\* -------------------------------------------------------- the checkpoint
\* A file is absent, unreadable, or a table: its header (fields) and its
\* lines, each a function from the header to text.
NoFile == [state |-> "absent", fields |-> {}, rows |-> <<>>]
Corrupt == [state |-> "corrupt", fields |-> {}, rows |-> <<>>]
Table(fields, rows) == [state |-> "table", fields |-> fields, rows |-> rows]

\* str() of a cell as csv.writer writes it: None becomes the empty string.
CsvText(v) ==
    CASE IsStr(v) -> v[2]
      [] IsNum(v) -> FloatRepr(v[2])
      [] v = NaN -> "nan"
      [] OTHER -> ""

\* Text-mode reading without newline='': universal newlines turn a carriage
\* return inside a quoted cell into a line feed.
Universal(s) == IF s = "x<CR>y" THEN "x<LF>y" ELSE s

\* DictWriter._dict_to_list: a key outside fieldnames raises ValueError, a
\* missing key is written as ''.
Fits(fields, r) == DOMAIN r \subseteq fields
Line(fields, r) == [k \in fields |-> IF k \in DOMAIN r THEN CsvText(r[k]) ELSE ""]

\* The longest prefix of rows that DictWriter.writerows writes before a row
\* that does not fit raises.
RECURSIVE WrittenPrefix(_, _)
WrittenPrefix(fields, rows) ==
    IF rows = <<>> \/ ~Fits(fields, Head(rows)) THEN <<>>
    ELSE <<Line(fields, Head(rows))>> \o WrittenPrefix(fields, Tail(rows))

WriteAll(rows) == Table(DOMAIN rows[1], WrittenPrefix(DOMAIN rows[1], rows))
WriteRaises(rows) == \E i \in 1..Len(rows) : ~Fits(DOMAIN rows[1], rows[i])

\* A save that writes nothing, and one that leaves out the last row.
SaveNothing(file, rows) == file
SaveAllButLast(file, rows) == IF Len(rows) <= 1 THEN file ELSE WriteAll(SubSeq(rows, 1, Len(rows) - 1))
\* Lines 176-192: the file save_progress leaves behind.
save_progress(file, rows) == IF rows = <<>> THEN file ELSE WriteAll(rows)

\* Lines 195-213: (results, processed_ids) of load_existing_progress.
ReadRow(fields, line) == [k \in fields |-> Str(Universal(line[k]))]
ReadRows(file) == [i \in 1..Len(file.rows) |-> ReadRow(file.fields, file.rows[i])]
Get(r, key) == IF key \in DOMAIN r THEN r[key] ELSE None
IdsOf(rows) == {Get(rows[i], "id") : i \in {j \in 1..Len(rows) : Truthy(Get(rows[j], "id"))}}
LoadRows(file) == IF file.state = "table" THEN ReadRows(file) ELSE <<>>
\* A load that forgets the identifiers, and one that keeps the empty ones.
LoadNoIds(file) == {}
LoadAllIds(file) == {Get(ReadRows(file)[i], "id") : i \in 1..Len(file.rows)}
LoadIds(file) == IF file.state = "table" THEN IdsOf(ReadRows(file)) ELSE {}
\* A load that removes a checkpoint it could not read.
LoadDropsUnreadable(file) == IF file.state = "corrupt" THEN NoFile ELSE file
\* The checkpoint file after load_existing_progress: it is opened for
\* reading only, and kept when reading it raises.
LoadLeaves(file) == file

\* ------------------------------------------------------------ the driver
VARIABLES
    pc,               \* where main() is: start, iter, call, cleanup, exit
    prompt_template,  \* the template handed to classify_article
    tmpFile,          \* classified.csv.tmp on disk
    outFile,          \* classified.csv on disk
    results,          \* main's results list
    processed_ids,    \* main's processed_ids set
    total_rows,       \* rows read from the input so far
    processed_rows,   \* main's processed_rows counter
    row,              \* the input row being classified (pc = "call")
    classification,   \* what the last classify_article call returned
    api,              \* what the remote call of the last classification did
    response_text,    \* the text of the last response, as the extraction received it
    exit_status,      \* the process exit status, -1 while running
    how,              \* running, completed, interrupted, error, ioerror, preflight
    interruptedAt,    \* pc at which KeyboardInterrupt arrived
    loaded,           \* history: the rows load_existing_progress returned
    calls,            \* history: the input rows classify_article was called for
    input,            \* history: the input rows read so far
    saved             \* history: the rows of the last save_progress that wrote

vars == <<pc, prompt_template, tmpFile, outFile, results, processed_ids, total_rows,
          processed_rows, row, classification, api, response_text, exit_status, how, interruptedAt,
          loaded, calls, input, saved>>


\* dict(row) followed by update(classification).
Merge(r, c) == [k \in DOMAIN r \cup DOMAIN c |-> IF k \in DOMAIN c THEN c[k] ELSE r[k]]

\* Checkpoints an earlier run of main() can have left: absent, unreadable,
\* or the save of rows that run produced.
PriorRows == {Merge(Item(i, Str("T"), Str("B")), ApiErrorResult) : i \in Ids}
InitialCheckpoints ==
    {NoFile, Corrupt} \cup {WriteAll(rs) : rs \in SeqsUpTo(PriorRows, MaxCkpt) \ {<<>>}}

Init ==
    /\ pc = "start"
    /\ prompt_template = create_classification_prompt
    /\ tmpFile \in InitialCheckpoints
    /\ outFile = NoFile
    /\ results = <<>>
    /\ processed_ids = {}
    /\ total_rows = 0
    /\ processed_rows = 0
    /\ row = NoRow
    /\ classification = NoObj
    /\ api = NoOutcome
    /\ response_text = NoText
    /\ exit_status = -1
    /\ how = "running"
    /\ interruptedAt = "none"
    /\ loaded = <<>>
    /\ calls = <<>>
    /\ input = <<>>
    /\ saved = <<>>

\* Lines 231, 317, 327: sys.exit(1).  Line 322: sys.exit(0) after an interrupt.
ErrorStatus == 1
\* The interrupt handler exiting like the other handlers.
InterruptLikeError == ErrorStatus
InterruptStatus == 0

\* sys.exit(code), or main() returning (code 0).
Exit(code, cause) ==
    /\ pc' = "exit"
    /\ exit_status' = code
    /\ how' = cause

\* `if results: save_progress(output_file, results)` of both handlers.
HandlerSave ==
    /\ tmpFile' = save_progress(tmpFile, results)
    /\ saved' = IF results = <<>> THEN saved ELSE results

\* Lines 227-231 and 60-62: no API key, or an unreadable neighborhood file.
PreflightExit ==
    /\ pc = "start"
    /\ Exit(ErrorStatus, "preflight")
    /\ UNCHANGED <<input, prompt_template, tmpFile, outFile, results, processed_ids, total_rows,
                   processed_rows, row, classification, api, response_text, interruptedAt, loaded,
                   calls, saved>>

\* Lines 216-244: KeyboardInterrupt before the try block is caught by
\* nothing: the interpreter ends on the signal (status 130), nothing is saved.
StartupInterrupt ==
    /\ pc = "start"
    /\ interruptedAt' = "start"
    /\ Exit(130, "interrupted")
    /\ UNCHANGED <<input, prompt_template, tmpFile, outFile, results, processed_ids, total_rows,
                   processed_rows, row, classification, api, response_text, loaded, calls, saved>>

\* Lines 244-251: the checkpoint is loaded and the input file opened.
Startup ==
    /\ pc = "start"
    /\ results' = LoadRows(tmpFile)
    /\ processed_ids' = LoadIds(tmpFile)
    /\ loaded' = LoadRows(tmpFile)
    /\ total_rows' = 0
    /\ processed_rows' = Len(LoadRows(tmpFile))
    /\ pc' = "iter"
    /\ tmpFile' = LoadLeaves(tmpFile)
    /\ UNCHANGED <<input, prompt_template, outFile, row, classification, api, response_text,
                   exit_status, how, interruptedAt, calls, saved>>

\* Lines 244, 248, 315-317: the checkpoint is loaded, the input file is
\* missing: exit 1 without a save.
InputMissing ==
    /\ pc = "start"
    /\ results' = LoadRows(tmpFile)
    /\ processed_ids' = LoadIds(tmpFile)
    /\ loaded' = LoadRows(tmpFile)
    /\ Exit(ErrorStatus, "preflight")
    /\ tmpFile' = LoadLeaves(tmpFile)
    /\ UNCHANGED <<input, prompt_template, outFile, total_rows, processed_rows, row,
                   classification, api, response_text, interruptedAt, calls, saved>>

\* A membership test that never finds the identifier.
NeverProcessed(item, ids) == FALSE
\* Line 258: `article_id in processed_ids`.
AlreadyProcessed(item, ids) == item["id"] \in ids

\* Lines 253-259: the next row's id is in processed_ids.
SkipProcessed(item) ==
    /\ pc = "iter"
    /\ total_rows < MaxItems
    /\ AlreadyProcessed(item, processed_ids)
    /\ total_rows' = total_rows + 1
    /\ input' = Append(input, item)
    /\ UNCHANGED <<pc, prompt_template, tmpFile, outFile, results, processed_ids,
                   processed_rows, row, classification, api, response_text, exit_status, how,
                   interruptedAt, loaded, calls, saved>>

\* Line 261: row.get('title', 'Untitled')[:50] on a title that is None
\* raises TypeError; lines 323-327 save and exit 1.
TitleTypeError(item) ==
    /\ pc = "iter"
    /\ total_rows < MaxItems
    /\ ~AlreadyProcessed(item, processed_ids)
    /\ item["title"] = None
    /\ total_rows' = total_rows + 1
    /\ input' = Append(input, item)
    /\ HandlerSave
    /\ Exit(ErrorStatus, "error")
    /\ UNCHANGED <<prompt_template, outFile, results, processed_ids, processed_rows, row,
                   classification, api, response_text, interruptedAt, loaded, calls>>

\* A test for absent fields that lets empty text through.
BothNone(item) == item["title"] = None /\ item["clean_content"] = None
\* Line 269: `not title and not content`.
NoTitleNoContent(item) == ~Truthy(item["title"]) /\ ~Truthy(item["clean_content"])

\* Lines 269-271: neither a title nor a content.
SkipEmpty(item) ==
    /\ pc = "iter"
    /\ total_rows < MaxItems
    /\ ~AlreadyProcessed(item, processed_ids)
    /\ item["title"] # None
    /\ NoTitleNoContent(item)
    /\ total_rows' = total_rows + 1
    /\ input' = Append(input, item)
    /\ UNCHANGED <<pc, prompt_template, tmpFile, outFile, results, processed_ids,
                   processed_rows, row, classification, api, response_text, exit_status, how,
                   interruptedAt, loaded, calls, saved>>

\* Lines 253-276: the row reaches classify_article.
BeginClassify(item) ==
    /\ pc = "iter"
    /\ total_rows < MaxItems
    /\ ~AlreadyProcessed(item, processed_ids)
    /\ item["title"] # None
    /\ ~NoTitleNoContent(item)
    /\ total_rows' = total_rows + 1
    /\ input' = Append(input, item)
    /\ row' = item
    /\ calls' = Append(calls, item)
    /\ pc' = "call"
    /\ UNCHANGED <<prompt_template, tmpFile, outFile, results, processed_ids,
                   processed_rows, classification, api, response_text, exit_status, how, interruptedAt,
                   loaded, saved>>

\* Lines 274-291: classify_article returns, the row is appended, and the
\* progress is saved when processed_rows is a multiple of save_frequency.
\* processed_ids is left as load_existing_progress built it.
AppendedIds(ids, r) == ids
\* A cadence test that is one row early.
SaveDueEarly(n) == (n + 1) % save_frequency = 0
\* Line 287: `processed_rows % save_frequency == 0`.
SaveDue(n) == n % save_frequency = 0
Returned(out, text) ==
    LET c == classify_article(prompt_template, row["title"], row["clean_content"], out)
        new == Append(results, Merge(row, c))
        due == SaveDue(processed_rows + 1)
    IN /\ pc = "call"
       /\ classification' = c
       /\ api' = IF FormatRaises(prompt_template) THEN NoOutcome ELSE out
       /\ response_text' = IF FormatRaises(prompt_template) THEN NoText ELSE text
       /\ results' = new
       /\ processed_ids' = AppendedIds(processed_ids, Merge(row, c))
       /\ processed_rows' = processed_rows + 1
       /\ tmpFile' = IF due THEN save_progress(tmpFile, new) ELSE tmpFile
       /\ saved' = IF due THEN new ELSE saved
       /\ row' = NoRow
       /\ pc' = "iter"
       /\ UNCHANGED <<input, prompt_template, outFile, total_rows, exit_status, how,
                      interruptedAt, loaded, calls>>
\* The driver's call: the response is known by its outcome only.
ClassifyReturn(out) == Returned(out, NoText)

\* Lines 318-322: KeyboardInterrupt anywhere inside the try block.
Interrupt ==
    /\ pc \in {"iter", "call", "cleanup"}
    /\ interruptedAt' = pc
    /\ HandlerSave
    /\ Exit(InterruptStatus, "interrupted")
    /\ UNCHANGED <<input, prompt_template, outFile, results, processed_ids, total_rows,
                   processed_rows, row, classification, api, response_text, loaded, calls>>

\* A final write that leaves out the first row.
FinalWriteTail(file, rows) ==
    IF rows = <<>> THEN file ELSE Table(DOMAIN rows[1], WrittenPrefix(DOMAIN rows[1], Tail(rows)))
\* Lines 297-303: the final file, written when there are results.
FinalWrite(file, rows) == IF rows = <<>> THEN file ELSE WriteAll(rows)

\* Lines 293-305 and 312-313: the reader is exhausted; the final file is
\* written when there are results.  A row that does not fit the first row's
\* fields raises ValueError out of writerows: lines 323-327 save and exit 1.
EndOfInput ==
    /\ pc = "iter"
    /\ outFile' = FinalWrite(outFile, results)
    /\ IF results = <<>>
       THEN Exit(0, "completed") /\ UNCHANGED <<tmpFile, saved>>
       ELSE IF WriteRaises(results)
            THEN HandlerSave /\ Exit(ErrorStatus, "error")
            ELSE pc' = "cleanup" /\ UNCHANGED <<tmpFile, saved, exit_status, how>>
    /\ UNCHANGED <<input, prompt_template, results, processed_ids, total_rows, processed_rows,
                   row, classification, api, response_text, interruptedAt, loaded, calls>>

\* Line 300: open(output_file, 'w') raises OSError (no permission, no
\* space); nothing is written and lines 323-327 save and exit 1.
OutputUnwritable ==
    /\ pc = "iter"
    /\ results # <<>>
    /\ HandlerSave
    /\ Exit(ErrorStatus, "ioerror")
    /\ UNCHANGED <<input, prompt_template, outFile, results, processed_ids, total_rows,
                   processed_rows, row, classification, api, response_text, interruptedAt,
                   loaded, calls>>

\* A cleanup that leaves the temporary file.
KeepTemp(file) == file
\* Lines 308-310: os.remove of the temporary file.
RemoveTemp(file) == NoFile

\* Lines 307-311: the temporary file is removed and main() returns.
Cleanup ==
    /\ pc = "cleanup"
    /\ tmpFile' = RemoveTemp(tmpFile)
    /\ Exit(0, "completed")
    /\ UNCHANGED <<input, prompt_template, outFile, results, processed_ids, total_rows,
                   processed_rows, row, classification, api, response_text, interruptedAt, loaded,
                   calls, saved>>

Next ==
    \/ PreflightExit
    \/ StartupInterrupt
    \/ Startup
    \/ InputMissing
    \/ \E item \in Items : SkipProcessed(item)
    \/ \E item \in Items : TitleTypeError(item)
    \/ \E item \in Items : SkipEmpty(item)
    \/ \E item \in Items : BeginClassify(item)
    \/ \E out \in ApiOutcomes : ClassifyReturn(out)
    \/ Interrupt
    \/ EndOfInput
    \/ OutputUnwritable
    \/ Cleanup

Spec == Init /\ [][Next]_vars

\* ------------------------------------------- the classifier call, alone
\* classify_article applied once: one row in flight, any template, any
\* outcome of the remote call, in a run that started fresh or resumed from
\* a checkpoint of one row.
InitClassify ==
    /\ pc = "call"
    /\ prompt_template \in Templates
    /\ tmpFile \in {NoFile} \cup {WriteAll(<<r>>) : r \in PriorRows}
    /\ row \in {it \in Items : it["title"] # None /\ ~NoTitleNoContent(it)
                                  /\ ~AlreadyProcessed(it, LoadIds(tmpFile))}
    /\ calls = <<row>>
    /\ input = <<row>>
    /\ total_rows = 1
    /\ outFile = NoFile
    /\ results = LoadRows(tmpFile)
    /\ processed_ids = LoadIds(tmpFile)
    /\ processed_rows = Len(LoadRows(tmpFile))
    /\ classification = NoObj
    /\ api = NoOutcome
    /\ response_text = NoText
    /\ exit_status = -1
    /\ how = "running"
    /\ interruptedAt = "none"
    /\ loaded = LoadRows(tmpFile)
    /\ saved = <<>>

NextClassify == \E out \in ApiOutcomes : ClassifyReturn(out)

SpecClassify == InitClassify /\ [][NextClassify]_vars

\* ------------------------------------------- the extraction, alone
\* classify_article applied once in a fresh run with a template that
\* formats, over every response text of at most MaxText pieces.
ExtractReturn(text) == Returned(Respond(text), text)

InitExtract ==
    /\ InitClassify
    /\ prompt_template = PlainTemplate
    /\ tmpFile = NoFile
    /\ row = Item(Str("a"), Str("T"), Str("B"))

NextExtract == pc = "call" /\ \E text \in ResponseTexts : ExtractReturn(text)

SpecExtract == InitExtract /\ [][NextExtract]_vars

\* ------------------------------------------- the checkpoint round trip
\* Rows as main() builds them: an input row merged with a classification, or
\* a row read back from a checkpoint (every cell text).
RoundTripResults ==
    { ApiErrorResult,
      Obj(Str("Mission"), Flt(5), Str("x<CR>y")),
      WithNote(Obj(Str("Mission"), Flt(10), Str("why"))),
      Obj(Str("unknown"), Str("0.0"), Str("API error")) }
RoundTripRows ==
    {Merge(Item(i, Str("T"), Str("B")), c) : i \in Ids \cup {None}, c \in RoundTripResults}

InitCheckpoint ==
    /\ pc = "save"
    /\ results \in SeqsUpTo(RoundTripRows, MaxRows)
    /\ tmpFile \in {NoFile, WriteAll(<<Merge(Item(Str("b"), Str("T"), Str("B")), ApiErrorResult)>>)}
    /\ prompt_template = create_classification_prompt
    /\ outFile = NoFile
    /\ processed_ids = {}
    /\ total_rows = 0
    /\ processed_rows = 0
    /\ row = NoRow
    /\ classification = NoObj
    /\ api = NoOutcome
    /\ response_text = NoText
    /\ exit_status = -1
    /\ how = "running"
    /\ interruptedAt = "none"
    /\ loaded = <<>>
    /\ calls = <<>>
    /\ input = <<>>
    /\ saved = <<>>

\* save_progress(output_file, results).
CkSave ==
    /\ pc = "save"
    /\ tmpFile' = save_progress(tmpFile, results)
    /\ saved' = results
    /\ pc' = "load"
    /\ UNCHANGED <<prompt_template, outFile, results, processed_ids, total_rows,
                   processed_rows, row, classification, api, response_text, exit_status, how,
                   interruptedAt, loaded, calls, input>>

\* results, processed_ids = load_existing_progress(output_file).
CkLoad ==
    /\ pc = "load"
    /\ results' = LoadRows(tmpFile)
    /\ processed_ids' = LoadIds(tmpFile)
    /\ loaded' = LoadRows(tmpFile)
    /\ pc' = "loaded"
    /\ tmpFile' = LoadLeaves(tmpFile)
    /\ UNCHANGED <<prompt_template, outFile, total_rows, processed_rows, row,
                   classification, api, response_text, exit_status, how, interruptedAt, calls, input,
                   saved>>

NextCheckpoint == CkSave \/ CkLoad

SpecCheckpoint == InitCheckpoint /\ [][NextCheckpoint]_vars

\* ------------------------------------------------------------ properties
\* The lines a table holds for rows, each row written with its own keys.
ExpectLines(rows) == [i \in 1..Len(rows) |-> [k \in DOMAIN rows[i] |-> CsvText(rows[i][k])]]
\* The lines of a file as a reader finds them: none when absent or unreadable.
FileLines(file) == IF file.state = "table" THEN file.rows ELSE <<>>
\* The identifier texts of a file's lines, and of rows in memory.
LineIds(lines) == {lines[i]["id"] : i \in 1..Len(lines)}
RowIdTexts(rows) == {CsvText(rows[i]["id"]) : i \in 1..Len(rows)}
DistinctLineIds(lines) ==
    \A i, j \in 1..Len(lines) : i # j => lines[i]["id"] # lines[j]["id"]
\* The rows appended by this run.
NewRows == SubSeq(results, Len(loaded) + 1, Len(results))

\* C1: the rows of the final output have pairwise distinct identifiers, for
\* a fresh run or one resumed from a checkpoint with distinct identifiers.
\* Stated for the non-empty identifiers, which is all the claim needs to fail.
C1_OutputIdsDistinct ==
    (how = "completed" /\ DistinctLineIds(ExpectLines(loaded)))
        => \A i, j \in 1..Len(FileLines(outFile)) :
              (i # j /\ outFile.rows[i]["id"] # "")
                  => outFile.rows[i]["id"] # outFile.rows[j]["id"]

\* C2 as stated: the classifier is never called, and no row appended, for
\* an item whose identifier occurs in a row of the loaded checkpoint.
C2_Original ==
    /\ \A i \in 1..Len(calls) : CsvText(calls[i]["id"]) \notin RowIdTexts(loaded)
    /\ \A i \in 1..Len(NewRows) : CsvText(NewRows[i]["id"]) \notin RowIdTexts(loaded)

\* C2 as amended: the classifier is never called, and no row appended, for
\* an item whose non-empty identifier occurs in a row of the loaded checkpoint.
C2_NoReclassification ==
    /\ \A i \in 1..Len(calls) :
          CsvText(calls[i]["id"]) # "" => CsvText(calls[i]["id"]) \notin RowIdTexts(loaded)
    /\ \A i \in 1..Len(NewRows) :
          CsvText(NewRows[i]["id"]) # "" => CsvText(NewRows[i]["id"]) \notin RowIdTexts(loaded)

\* C2 witness: a resumed run has read an item whose identifier is in the
\* checkpoint and has classified another one.
C2_Witness ==
    /\ pc = "iter"
    /\ Len(loaded) = 1
    /\ \E i \in 1..Len(input) : input[i]["id"] = loaded[1]["id"] /\ Truthy(input[i]["id"])
    /\ Len(calls) = 1
    /\ Len(results) = 2

C6_NoItemAborts == how # "error"

\* C8 as stated: when every item's identifier is in a checkpoint row, a
\* completed run calls the classifier zero times and its output is the
\* checkpoint's rows.
C8_Original ==
    (how = "completed"
       /\ \A i \in 1..Len(input) : CsvText(input[i]["id"]) \in RowIdTexts(loaded))
        => /\ calls = <<>>
           /\ FileLines(outFile) = ExpectLines(loaded)

\* C8 as amended: the same when every item has a non-empty identifier that
\* is in a checkpoint row.
C8_IdempotentResume ==
    (how = "completed"
       /\ \A i \in 1..Len(input) :
             /\ CsvText(input[i]["id"]) # ""
             /\ CsvText(input[i]["id"]) \in RowIdTexts(loaded))
        => /\ calls = <<>>
           /\ FileLines(outFile) = ExpectLines(loaded)

\* C8 witness: a completed run over two items, both in the two-row checkpoint.
C8_Witness ==
    /\ how = "completed"
    /\ Len(loaded) = 2
    /\ Len(input) = 2
    /\ input[1]["id"] # input[2]["id"]
    /\ \A i \in 1..2 : Truthy(input[i]["id"]) /\ CsvText(input[i]["id"]) \in RowIdTexts(loaded)
    /\ Len(outFile.rows) = 2

\* C9: every identifier of the loaded checkpoint is an identifier of the
\* final output, once that output is written.
C9_OutputKeepsCheckpoint ==
    outFile.state = "table" => RowIdTexts(loaded) \subseteq LineIds(outFile.rows)

\* C9 witness: the final output of a resumed run that added a row.
C9_Witness ==
    /\ how = "completed"
    /\ outFile.state = "table"
    /\ Len(loaded) = 2
    /\ Len(outFile.rows) = 3

\* The value min(max(V, 0.0), 1.0) names for a number V.
MathClamp(v) == IF FLt(v, Flt(0)) THEN Flt(0) ELSE IF FLt(Flt(10), v) THEN Flt(10) ELSE v

\* C7: when the response's confidence coerces to a number V, the returned
\* and appended confidence is min(max(V, 0.0), 1.0) and lies in [0.0, 1.0].
C7_ConfidenceClamped ==
    (pc = "iter" /\ api.kind = "dict" /\ ResultKeys \subseteq DOMAIN api.obj
       /\ FloatOf(api.obj["confidence"]).exc = "none")
        => LET V == FloatOf(api.obj["confidence"]).val
               c == classification["confidence"]
               r == results[Len(results)]["confidence"]
           IN /\ c = MathClamp(V)
              /\ r = c
              /\ FLe(Flt(0), r) /\ FLe(r, Flt(10))

\* Rows that all have the first row's keys, and rows free of carriage returns.
Uniform(rows) == \A i \in 1..Len(rows) : DOMAIN rows[i] = DOMAIN rows[1]
NoCarriageReturn(rows) ==
    \A i \in 1..Len(rows) : \A k \in DOMAIN rows[i] : CsvText(rows[i][k]) # "x<CR>y"

TheObject == <<"{", "members", "}">>
FencedInside == <<"{", "fence members", "}">>
IsBare(text, O) == text \in O
IsFenced(text, O) ==
    \E f \in {"fence json", "fence"}, o \in O : text = <<f>> \o o \o <<"fence">>
\* An object of O with pieces of S, and nothing else, before and after it.
Wrapped(text, O, S) ==
    \E i \in 1..(Len(text) - 2) :
        /\ SubSeq(text, i, i + 2) \in O
        /\ \A j \in (1..Len(text)) \ (i..(i + 2)) : text[j] \in S
NoBraces(text) == \A i \in 1..Len(text) : text[i] \notin {"{", "}"}
ValidResult == Validate(Outcome("dict", ResponseObj))
Degraded(c) ==
    /\ c["neighborhood"] = Str("unknown")
    /\ c["confidence"] = Flt(0)
    /\ IsStr(c["rationale"]) /\ c["rationale"][2] # ""
ExtractsAround(O, S) ==
    pc = "iter" =>
        /\ (IsBare(response_text, O) \/ IsFenced(response_text, O)
                \/ Wrapped(response_text, O, S))
               => classification = ValidResult
        /\ NoBraces(response_text) => Degraded(classification)

\* C11: the bare object, the fenced object and the object with prose
\* around it, the prose holding no brace and no fence, give the same valid
\* result whatever strings the object holds, and a text without braces
\* gives the degraded result with label unknown, confidence 0.0 and a
\* rationale that is not empty.
C11_ExtractionRobust == ExtractsAround({TheObject, FencedInside}, {"words", "number"})

\* ------------------------------------------------------------- claim C12
\* C12: load_existing_progress never aborts the run and never changes the
\* checkpoint file: the step that loads leaves the file as it was, goes on
\* to open the input, and from a missing or unreadable checkpoint it takes
\* no rows and no identifiers.
C12_LoadTotalReadOnly ==
    [][(Startup \/ InputMissing) =>
          /\ tmpFile' = tmpFile
          /\ tmpFile.state # "table" => (results' = <<>> /\ processed_ids' = {})
          /\ Startup => pc' = "iter"]_vars
C12_Witness ==
    /\ pc = "iter"
    /\ input = <<>>
    /\ tmpFile = Corrupt
    /\ results = <<>>
    /\ processed_ids = {}

\* ------------------------------------------------------------- claim C13
\* The largest count in (lo, hi] that is a multiple of save_frequency when
\* counted from base, 0 where there is none.
LastDue(base, lo, hi) ==
    LET due == {m \in (lo + 1)..hi : (m - base) % save_frequency = 0}
    IN IF due = {} THEN 0 ELSE CHOOSE m \in due : \A k \in due : k <= m
\* During iteration the last save that wrote was made right after the
\* append that made the count, taken from base, a multiple of
\* save_frequency, with the rows there were then; there was none if no
\* append did.
SavedOnCadence(base) ==
    pc \in {"iter", "call"} =>
        saved = SubSeq(results, 1, LastDue(base, Len(loaded), Len(results)))

\* C13 as stated: the count is of the appends made so far by the run.
C13_Original == SavedOnCadence(Len(loaded))

\* C13: during iteration save is called right after an append exactly when
\* the number of rows in the run state, loaded rows and appended rows
\* together, is a multiple of save_frequency, and at no other point; a
\* fresh run over three items with a frequency of 2 saves once, after the
\* second.
C13_CheckpointCadence == SavedOnCadence(0)
C13_Witness ==
    /\ pc = "iter"
    /\ loaded = <<>>
    /\ Len(results) = save_frequency + 1
    /\ saved = SubSeq(results, 1, save_frequency)
    /\ FileLines(tmpFile) = ExpectLines(saved)

\* ------------------------------------------------------------- claim C14
\* C14: between items processed_ids is the set of the non-empty identifiers
\* of the rows in results, so the identifier of a row just appended is in
\* it before the next item is examined.
C14_ProcessedIdsTrackRows == pc = "iter" => processed_ids = IdsOf(results)

\* ------------------------------------------------------------- claim C15
\* The call returned a text that json.loads rejects, or an object that
\* lacks a required key or whose confidence float() does not accept.
ParseFailure(out) ==
    \/ out.kind = "nojson"
    \/ /\ out.kind = "dict"
       /\ \/ ~(ResultKeys \subseteq DOMAIN out.obj)
          \/ FloatOf(out.obj["confidence"]).exc # "none"

\* C15: with a template that formats, a failed remote call gives the
\* rationale of a transport error, and a response that cannot be parsed,
\* lacks a required key or has a confidence that is no number gives the
\* rationale of a parsing error.
C15_RationaleNamesFailure ==
    (pc = "iter" /\ ~FormatRaises(prompt_template)) =>
        /\ api.kind = "raise" => classification = ApiErrorResult
        /\ ParseFailure(api) => classification = ParseErrorResult

\* ------------------------------------------------------------- claim C16
\* C16: an interrupt that arrives while classify_article runs is acted on
\* only after the call has returned and its row has been appended: every
\* row classify_article was called for has its row in results, and the
\* checkpoint saved on exit holds them all.
C16_InFlightRowKept ==
    (how = "interrupted" /\ interruptedAt = "call") =>
        /\ Len(NewRows) = Len(calls)
        /\ FileLines(tmpFile) = ExpectLines(results)

Usable(r) == Truthy(Get(r, "title")) \/ Truthy(Get(r, "clean_content"))
\* C18: a row with neither a title nor a content is never handed to
\* classify_article and never appended; total_rows counts every row read,
\* the skipped ones too, and processed_rows counts the loaded rows and the
\* appended ones only.
C18_SkipsCountAsSeenOnly ==
    /\ \A i \in 1..Len(calls) : Usable(calls[i])
    /\ \A i \in 1..Len(NewRows) : Usable(NewRows[i])
    /\ pc \in {"iter", "call", "cleanup"} =>
          /\ total_rows = Len(input)
          /\ processed_rows = Len(loaded) + Len(NewRows)
          /\ Len(NewRows) <= Len(calls)
C18_Witness ==
    /\ pc = "iter"
    /\ total_rows = 2
    /\ \E i \in 1..Len(input) : ~Usable(input[i]) /\ input[i]["id"] \notin processed_ids
    /\ \E i \in 1..Len(input) : input[i]["id"] \in processed_ids
    /\ calls = <<>>
    /\ processed_rows = Len(loaded)

\* ------------------------------------------------------------- claim C19
\* C19: every row of results has the keys of the first row, whatever
\* object the response held.
C19_RowsShareKeys == pc = "iter" => Uniform(results)

\* ------------------------------------------------------------- claim C20
\* C20: a save_progress that is given rows leaves in the checkpoint file
\* either all of those rows or what the file held before; and while main()
\* iterates, no step takes an identifier out of the checkpoint file.
C20_SaveAllOrNothing ==
    [][/\ saved' # saved =>
             \/ FileLines(tmpFile') = ExpectLines(saved')
             \/ tmpFile' = tmpFile
       /\ pc \in {"iter", "call"} =>
             LineIds(FileLines(tmpFile)) \subseteq LineIds(FileLines(tmpFile'))]_vars


====
